---- MODULE Spec2Model ----
(***************************************************************************)
(* A model of gitup (src/gitup.py): a command-line client that uploads,    *)
(* downloads, lists and deletes files of a remote repository through the   *)
(* hosting service's content API, with a token kept in a local file.       *)
(*                                                                         *)
(* Text is modelled as a sequence of one-character strings, bytes as a     *)
(* sequence of numbers 0..255, base64 text as a sequence of sextets 0..63  *)
(* with 64 standing for the padding character '='.                         *)
(***************************************************************************)
EXTENDS Integers, Sequences, FiniteSets, TLC

VARIABLES
    pin,        \* SpecParse: the string handed to parse_repo_path
    pout,       \* SpecParse: what parse_repo_path returned
    tokenFile,  \* content of ~/.gitup_token, or Absent
    remote,     \* the repository: path -> base64 text of the file there
    local,      \* the local file system: path -> bytes of the file there
    isatty,     \* sys.stdout.isatty()
    runs,       \* invocations started so far
    pc,         \* position of the running invocation
    cmd,        \* the subcommand of the running invocation
    args,       \* its positional arguments
    exitStatus, \* its exit status ("0", "1", "2"), Running while it runs
    log,        \* its events in order: calls, spinner starts/stops, prints, exit
    spinner,    \* the Spinner object bound to the handler's local `spinner`
    live,       \* messages of the Spinner objects whose thread is spinning
    repo_name,  \* handler local
    repo_path,  \* handler local
    dest,       \* handler local: file_name / dest_path
    content,    \* handler local: bytes read from the local file
    contents,   \* handler local: what get_contents returned
    todo,       \* copy: files of the directory not yet visited by the loop
    token,      \* login: the token typed
    start,      \* the world when the invocation started
    lastUp      \* remote path -> bytes of the last successful upload to it

vars == <<pin, pout, tokenFile, remote, local, isatty, runs, pc, cmd, args,
          exitStatus, log, spinner, live, repo_name, repo_path, dest, content,
          contents, todo, token, start, lastUp>>

(***************************************************************************)
(* Bounds of the model.                                                    *)
(***************************************************************************)
MaxLen == 4      \* SpecParse: longest string parsed
MaxRuns == 2     \* Spec: invocations of the tool in one behaviour

(***************************************************************************)
(* Text.                                                                   *)
(***************************************************************************)
None == <<"None">>           \* Python's None
Absent == <<"ABSENT">>       \* no token file
Unparsed == <<"unparsed">>   \* parse_repo_path not called yet
Running == "running"         \* exitStatus of an invocation that has not exited

RECURSIVE StrUpTo(_, _)
StrUpTo(alphabet, n) ==
    IF n = 0 THEN {<<>>}
    ELSE LET shorter == StrUpTo(alphabet, n - 1)
         IN  shorter \cup {Append(s, c) : s \in shorter, c \in alphabet}

\* c in s
Contains(s, c) == \E i \in 1..Len(s) : s[i] = c

\* s.startswith(c) for a one-character c
StartsWith(s, c) == Len(s) > 0 /\ s[1] = c

\* s.split(c, 1): a list of one part, or of two when c occurs
RECURSIVE Split1From(_, _, _)
Split1From(s, c, i) ==
    IF i > Len(s) THEN <<s>>
    ELSE IF s[i] = c THEN <<SubSeq(s, 1, i - 1), SubSeq(s, i + 1, Len(s))>>
    ELSE Split1From(s, c, i + 1)

Split1(s, c) == Split1From(s, c, 1)

\* s.replace(a, b) for one-character a and b
Replace(s, a, b) == [i \in 1..Len(s) |-> IF s[i] = a THEN b ELSE s[i]]

\* os.path.basename(p) on POSIX: what follows the last '/'
RECURSIVE Basename(_)
Basename(p) ==
    IF ~Contains(p, "/") THEN p
    ELSE Basename(Tail(p))

\* os.path.join(a, b) on POSIX
PathJoin(a, b) ==
    IF StartsWith(b, "/") THEN b
    ELSE IF a = <<>> \/ a[Len(a)] = "/" THEN a \o b
    ELSE a \o <<"/">> \o b

\* parse_repo_path with the '/' validation left out
parse_repo_path_unvalidated(s) ==
    IF s = <<>> THEN <<None, None>>
    ELSE LET parts == Split1(s, ":")
         IN  IF parts[1] = <<>> THEN <<None, None>>
             ELSE <<parts[1], IF Len(parts) > 1 THEN parts[2] ELSE <<>>>>

\* parse_repo_path(repo_path): (repo_name, repo_path) or (None, None)
parse_repo_path(s) ==
    IF s = <<>> THEN <<None, None>>
    ELSE LET parts == Split1(s, ":")
             name == parts[1]
             path == IF Len(parts) > 1 THEN parts[2] ELSE <<>>
         IN  IF name = <<>> \/ ~Contains(name, "/") THEN <<None, None>>
             ELSE <<name, path>>

(***************************************************************************)
(* Bytes and base64.                                                       *)
(***************************************************************************)
Pad == 64   \* the sextet standing for '='

\* base64.b64encode, as the API client applies it to the bytes it is given
RECURSIVE B64Encode(_)
B64Encode(b) ==
    IF Len(b) = 0 THEN <<>>
    ELSE IF Len(b) = 1 THEN <<b[1] \div 4, (b[1] % 4) * 16, Pad, Pad>>
    ELSE IF Len(b) = 2 THEN
        <<b[1] \div 4, (b[1] % 4) * 16 + b[2] \div 16, (b[2] % 16) * 4, Pad>>
    ELSE <<b[1] \div 4, (b[1] % 4) * 16 + b[2] \div 16,
           (b[2] % 16) * 4 + b[3] \div 64, b[3] % 64>>
         \o B64Encode(SubSeq(b, 4, Len(b)))

\* b64decode that loses the byte completed by the last sextet of a group
RECURSIVE B64DecodeShort(_)
B64DecodeShort(t) ==
    IF Len(t) < 4 THEN <<>>
    ELSE <<t[1] * 4 + t[2] \div 16>>
         \o (IF t[3] = Pad THEN <<>> ELSE <<(t[2] % 16) * 16 + t[3] \div 4>>)
         \o B64DecodeShort(SubSeq(t, 5, Len(t)))

\* base64.b64decode(content.content)
RECURSIVE B64Decode(_)
B64Decode(t) ==
    IF Len(t) < 4 THEN <<>>
    ELSE <<t[1] * 4 + t[2] \div 16>>
         \o (IF t[3] = Pad THEN <<>>
             ELSE <<(t[2] % 16) * 16 + t[3] \div 4>>
                  \o (IF t[4] = Pad THEN <<>> ELSE <<(t[3] % 4) * 64 + t[4]>>))
         \o B64Decode(SubSeq(t, 5, Len(t)))

(***************************************************************************)
(* The worlds the tool runs in: one repository o/r, a local file f, a      *)
(* local directory t and a local path x that does not exist.               *)
(***************************************************************************)
Repo == <<"o", "/", "r">>
LocalFile == <<"f">>
LocalDir == <<"t">>
LocalNew == <<"x">>

\* the bytes the local file f may hold: every padding case of base64
ByteSeqs == {<<255>>, <<77, 97>>, <<0, 255, 128, 10>>}

\* the files of the local directory t; on POSIX '\' is a character of a name
LocalTree ==
    (<<"t", "/", "a", "/", "b">> :> <<1, 2, 3>>)
    @@ (<<"t", "/", "a", "/", "c", "/", "d">> :> <<>>)
    @@ (<<"t", "/", "e", "\\", "g">> :> <<7>>)

EmptyMap == [p \in {} |-> <<>>]

RemoteInits ==
    { EmptyMap,
      (<<"f">> :> B64Encode(<<9>>)) @@ (<<"d", "/", "g">> :> B64Encode(<<8, 8>>)) }

\* the command lines tried: a subcommand (or "none") and its positional
\* arguments, among them a missing argument, one too many, and empty ones
RepoFile == Repo \o <<":", "f">>
RepoDir == Repo \o <<":", "d">>
Invocations ==
    {<<"none", <<>>>>, <<"login", <<>>>>, <<"login", <<LocalFile>>>>,
     <<"send", <<LocalFile>>>>, <<"rm", <<>>>>, <<"ls", <<>>>>}
    \cup {<<"send", <<a, b>>>> : a \in {<<>>, LocalFile, LocalNew},
                                 b \in {<<>>, LocalFile, Repo, RepoDir}}
    \cup {<<"copy", <<a, b>>>> : a \in {<<>>, LocalFile, LocalDir, LocalNew},
                                 b \in {<<>>, LocalFile, Repo, RepoDir}}
    \cup {<<"copy", <<a, b>>>> : a \in {RepoFile, RepoDir}, b \in {LocalFile, LocalNew}}
    \cup {<<"rm", <<a>>>> : a \in {<<>>, LocalFile, Repo, RepoFile, RepoDir}}
    \cup {<<"ls", <<a>>>> : a \in {<<":", ".">>, LocalFile, Repo, RepoDir}}

\* the lines typed at login's prompt; Interrupt is Ctrl-C
Interrupt == <<"^C">>
TypedLines == { Interrupt, <<" ">>, <<" ", "m", " ">> }

\* str.strip() for the blank character
RECURSIVE Strip(_)
Strip(s) ==
    IF Len(s) = 0 THEN s
    ELSE IF s[1] = " " THEN Strip(Tail(s))
    ELSE IF s[Len(s)] = " " THEN Strip(SubSeq(s, 1, Len(s) - 1))
    ELSE s

(***************************************************************************)
(* Paths of a file tree (the repository, and the local file system): a     *)
(* directory exists exactly when a file lies under it.                     *)
(***************************************************************************)
\* path q lies under directory d ("" is the root)
IsUnder(q, d) ==
    IF d = <<>> THEN TRUE
    ELSE /\ Len(q) > Len(d) + 1
         /\ SubSeq(q, 1, Len(d)) = d
         /\ q[Len(d) + 1] = "/"

\* q relative to directory d: Path.relative_to
RelativeTo(q, d) ==
    IF d = <<>> THEN q ELSE SubSeq(q, Len(d) + 2, Len(q))

Kind(tree, p) ==
    IF p \in DOMAIN tree THEN "file"
    ELSE IF \E q \in DOMAIN tree : IsUnder(q, p) THEN "dir"
    ELSE "absent"

\* the first component of a relative path
RECURSIVE Head1(_)
Head1(p) ==
    IF p = <<>> \/ p[1] = "/" THEN <<>> ELSE <<p[1]>> \o Head1(Tail(p))

\* the entries of directory d: [name, path, type]
Listing(tree, d) ==
    { [name |-> Head1(RelativeTo(q, d)),
       path |-> PathJoin(d, Head1(RelativeTo(q, d))),
       type |-> IF Head1(RelativeTo(q, d)) = RelativeTo(q, d) THEN "file" ELSE "dir"]
      : q \in {q \in DOMAIN tree : IsUnder(q, d)} }

\* the blob sha the service reports for a file: determined by its content
Sha(text) == <<"sha">> \o text

(***************************************************************************)
(* The remote content API, as the tool sees it.  An outcome `o` is what    *)
(* the environment does to one call: "ok" lets the service answer by its   *)
(* contract for the repository's state, "404" and "err" make the call      *)
(* raise a GithubException (status 404, another status), "exc" makes it    *)
(* raise another exception (no connection).                                *)
(***************************************************************************)
ReadOutcomes == {"ok", "err", "exc"}
WriteOutcomes == {"ok", "404", "err", "exc"}

\* repo.get_contents(path): "ok" (an entry or a listing), or how it fails
GetContentsResult(r, p, o) ==
    IF o # "ok" THEN o
    ELSE IF Kind(r, p) = "absent" THEN "404"
    ELSE "ok"

\* repo.update_file(path, message, content, sha): needs the file's current sha
UpdateResult(r, p, sha, o) ==
    IF o # "ok" THEN o
    ELSE IF p \in DOMAIN r /\ Sha(r[p]) = sha THEN "ok"
    ELSE "err"

\* repo.create_file(path, message, content): the path must be free
CreateResult(r, p, o) ==
    IF o # "ok" THEN o
    ELSE IF Kind(r, p) = "absent" THEN "ok"
    ELSE "err"

\* repo.delete_file(path, message, sha)
DeleteResult(r, p, sha, o) ==
    IF o # "ok" THEN o
    ELSE IF p \in DOMAIN r /\ Sha(r[p]) = sha THEN "ok"
    ELSE "err"

\* the repository after a successful create_file or update_file
Put(r, p, bytes) ==
    [q \in DOMAIN r \cup {p} |-> IF q = p THEN B64Encode(bytes) ELSE r[q]]

\* the tree without the file at p
Without(r, p) == [q \in DOMAIN r \ {p} |-> r[q]]

NoContents == [kind |-> "none", sha |-> <<>>, content |-> <<>>, name |-> <<>>]

\* what a successful get_contents returns: a ContentFile, or a list of them
Entry(r, p) ==
    IF Kind(r, p) = "file"
    THEN [kind |-> "file", sha |-> Sha(r[p]), content |-> r[p], name |-> Basename(p)]
    ELSE [kind |-> "list", sha |-> <<>>, content |-> <<>>, name |-> <<>>]

(***************************************************************************)
(* Events, the spinner and the console.  A step of a handler threads the   *)
(* record [spinner, live, log] through what it does, in the code's order.  *)
(***************************************************************************)
Ev(k, v, p, r, s) == [k |-> k, v |-> v, p |-> p, r |-> r, s |-> s]

Ctx == [spinner |-> spinner, live |-> live, log |-> log]

NoSpinner == [message |-> "", spinning |-> FALSE, started |-> FALSE]

\* print / error / success / info
Say(c, tag) == [c EXCEPT !.log = Append(@, Ev("print", tag, <<>>, "", <<>>))]

\* input("GitHub token: ") returned `line`, or was interrupted
Typed(c, line) == [c EXCEPT !.log = Append(@, Ev("input", "", line, "", <<>>))]

\* open(path, 'rb') and read() ended as `res`
Opened(c, path, res) == [c EXCEPT !.log = Append(@, Ev("open", "", path, res, <<>>))]

\* a remote call was issued and ended as `res`
Called(c, name, path, res, sha) ==
    [c EXCEPT !.log = Append(@, Ev("call", name, path, res, sha))]

\* spinner = Spinner(message)
NewSpinner(c, msg) ==
    [c EXCEPT !.spinner = [message |-> msg, spinning |-> FALSE, started |-> FALSE]]

\* Spinner.start
SpinnerStart(c) ==
    IF ~isatty THEN
        [c EXCEPT !.log = Append(@, Ev("echo", c.spinner.message, <<>>, "", <<>>))]
    ELSE IF c.spinner.started THEN c
    ELSE [c EXCEPT !.spinner.spinning = TRUE,
                   !.spinner.started = TRUE,
                   !.live = @ \cup {c.spinner.message},
                   !.log = Append(@, Ev("start", c.spinner.message, <<>>, "", <<>>))]

\* Spinner.stop: clears `spinning` and joins the thread
SpinnerStop(c) ==
    IF ~isatty THEN c
    ELSE IF ~c.spinner.started THEN c
    ELSE [c EXCEPT !.spinner.spinning = FALSE,
                   !.live = @ \ {c.spinner.message},
                   !.log = Append(@, Ev("stop", c.spinner.message, <<>>, "", <<>>))]

\* an exception nothing catches: the interpreter prints the traceback, status 1
Uncaught(c) == Say(c, "Traceback")

\* the handler goes on at `label`
Goto(c, label) ==
    /\ spinner' = c.spinner
    /\ live' = c.live
    /\ log' = c.log
    /\ pc' = label
    /\ exitStatus' = exitStatus

\* the process ends with `status`: sys.exit, or main returning
Leave(c, status) ==
    /\ spinner' = c.spinner
    /\ live' = c.live
    /\ log' = Append(c.log, Ev("exit", status, <<>>, "", <<>>))
    /\ pc' = "done"
    /\ exitStatus' = status

TokenOutcomes == {"ok", "oserr"}

\* get_github_client without the os.path.exists(TOKEN_PATH) check
GetClientUnchecked(rd) ==
    IF rd = "oserr" THEN "Failed to read authentication token" ELSE "ok"

\* get_github_client: "ok", or the error it exits with
GetClient(rd) ==
    IF tokenFile = Absent THEN "Authentication required"
    ELSE IF rd = "oserr" THEN "Failed to read authentication token"
    ELSE "ok"

World == [tokenFile |-> tokenFile, remote |-> remote, local |-> local]

(***************************************************************************)
(* SpecParse: parse_repo_path applied to every string up to MaxLen.        *)
(***************************************************************************)
ParseAlphabet == {"a", "/", ":"}

Idle ==
    /\ tokenFile = Absent /\ remote = EmptyMap /\ local = EmptyMap
    /\ isatty = FALSE /\ runs = 0 /\ pc = "idle" /\ cmd = "none" /\ args = <<>>
    /\ exitStatus = Running /\ log = <<>> /\ spinner = NoSpinner /\ live = {}
    /\ repo_name = None /\ repo_path = None /\ dest = <<>> /\ content = <<>>
    /\ contents = NoContents /\ todo = {} /\ token = <<>>
    /\ start = [tokenFile |-> Absent, remote |-> EmptyMap, local |-> EmptyMap]
    /\ lastUp = EmptyMap

cliVars == <<tokenFile, remote, local, isatty, runs, pc, cmd, args, exitStatus,
             log, spinner, live, repo_name, repo_path, dest, content, contents,
             todo, token, start, lastUp>>

InitParse ==
    /\ pin \in StrUpTo(ParseAlphabet, MaxLen)
    /\ pout = Unparsed
    /\ Idle

ParseStep ==
    /\ pout = Unparsed
    /\ pout' = parse_repo_path(pin)
    /\ UNCHANGED <<pin, cliVars>>

NextParse == ParseStep

SpecParse == InitParse /\ [][NextParse]_vars

(***************************************************************************)
(* Spec: invocations of the tool, one after the other, on one world.       *)
(***************************************************************************)
\* parser.parse_args accepts `a` as the positional arguments of subcommand c
ArgsAccepted(c, a) ==
    CASE c = "none" -> Len(a) = 0
      [] c = "login" -> Len(a) = 0
      [] c = "send" -> Len(a) = 2
      [] c = "copy" -> Len(a) = 2
      [] c = "rm" -> Len(a) = 1
      [] c = "ls" -> Len(a) <= 1

Init ==
    /\ pin = <<>> /\ pout = Unparsed
    /\ tokenFile \in {Absent, <<"k">>}
    /\ remote \in RemoteInits
    /\ \E b \in ByteSeqs : local = (LocalFile :> b) @@ LocalTree
    /\ isatty \in BOOLEAN
    /\ runs = 0 /\ pc = "idle" /\ cmd = "none" /\ args = <<>>
    /\ exitStatus = Running /\ log = <<>> /\ spinner = NoSpinner /\ live = {}
    /\ repo_name = None /\ repo_path = None /\ dest = <<>> /\ content = <<>>
    /\ contents = NoContents /\ todo = {} /\ token = <<>>
    /\ start = World
    /\ lastUp = EmptyMap

Fresh == [spinner |-> NoSpinner, live |-> {}, log |-> <<>>]

locals == <<repo_name, repo_path, dest, content, contents, todo, token>>
world == <<tokenFile, remote, local, lastUp>>
frame == <<pin, pout, isatty, runs, cmd, args, start>>

\* main: parse the command line and dispatch to the subcommand's handler
Main(c, a) ==
    /\ pc = "idle"
    /\ runs < MaxRuns
    /\ runs' = runs + 1
    /\ cmd' = c
    /\ args' = IF c = "ls" /\ a = <<>> THEN << <<":", ".">> >> ELSE a
    /\ start' = World
    /\ IF ~ArgsAccepted(c, a) THEN Leave(Say(Fresh, "usage"), "2")
       ELSE IF c = "none" THEN Leave(Say(Fresh, "No command specified"), "0")
       ELSE /\ spinner' = NoSpinner /\ live' = {} /\ log' = <<>>
            /\ pc' = c /\ exitStatus' = Running
    /\ UNCHANGED <<pin, pout, isatty, world, locals>>

\* the process is gone, and with it its locals, its threads and its output;
\* the token file, the repository and the local files stay
ProcessEnd ==
    /\ pc = "done"
    /\ pc' = "idle"
    /\ exitStatus' = Running
    /\ cmd' = "none" /\ args' = <<>>
    /\ log' = <<>> /\ spinner' = NoSpinner /\ live' = {}
    /\ repo_name' = None /\ repo_path' = None /\ dest' = <<>> /\ content' = <<>>
    /\ contents' = NoContents /\ todo' = {} /\ token' = <<>>
    /\ start' = World
    /\ UNCHANGED <<pin, pout, isatty, runs, world>>

\* login, to the prompt's answer
LoginPrompt(line) ==
    /\ pc = "login"
    /\ IF line = Interrupt THEN
           /\ Leave(Say(Typed(Ctx, line), "Cancelled"), "0")
           /\ UNCHANGED token
       ELSE IF Strip(line) = <<>> THEN
           /\ Leave(Say(Typed(Ctx, line), "Token cannot be empty"), "1")
           /\ UNCHANGED token
       ELSE
           /\ token' = Strip(line)
           /\ Goto(SpinnerStart(NewSpinner(Typed(Ctx, line), "Verifying token...")),
                   "login_verify")
    /\ UNCHANGED <<frame, world, repo_name, repo_path, dest, content, contents, todo>>

\* login writing the token file before the token is verified
LoginVerifyEager(o, w) ==
    /\ pc = "login_verify"
    /\ tokenFile' = token
    /\ LET c1 == SpinnerStop(Called(Ctx, "get_user", <<>>, o, <<>>))
       IN  IF o = "ok" THEN Leave(Say(c1, "Authenticated"), "0")
           ELSE Leave(Say(c1, "Authentication failed"), "1")
    /\ UNCHANGED <<frame, locals, remote, local, lastUp>>

\* login: verify the token with one authenticated call, then save it
LoginVerify(o, w) ==
    /\ pc = "login_verify"
    /\ LET c1 == SpinnerStop(Called(Ctx, "get_user", <<>>, o, <<>>))
       IN  IF o = "ok" /\ w = "ok" THEN
               /\ tokenFile' = token
               /\ Leave(Say(c1, "Authenticated"), "0")
           ELSE IF o = "ok" THEN
               /\ Leave(Say(c1, "Unexpected error"), "1")
               /\ UNCHANGED tokenFile
           ELSE IF o = "err" THEN
               /\ Leave(Say(c1, "Authentication failed"), "1")
               /\ UNCHANGED tokenFile
           ELSE
               /\ Leave(Say(c1, "Unexpected error"), "1")
               /\ UNCHANGED tokenFile
    /\ UNCHANGED <<frame, locals, remote, local, lastUp>>

\* os.path.isfile / Path.is_dir / Path.exists on the local file system
IsFile(p) == Kind(local, p) = "file"
IsDir(p) == p # <<>> /\ Kind(local, p) = "dir"

\* open(path, 'rb').read(): "ok", or OSError
LocalOutcomes == {"ok", "oserr"}

\* the error a handler prints when an upload fails, by the place of the upload
UploadModes == {"send", "copyfile", "copydir"}
FailMsg(mode) ==
    CASE mode = "send" -> "Upload failed"
      [] mode = "copyfile" -> "Upload failed"
      [] mode = "copydir" -> "Failed to upload"
ExcMsg(mode) ==
    CASE mode = "send" -> "Unexpected error"
      [] mode = "copyfile" -> "Upload failed"
      [] mode = "copydir" -> "Failed to upload"
Label(mode, step) ==
    CASE mode = "send" /\ step = "get" -> "send_get_contents"
      [] mode = "send" /\ step = "update" -> "send_update"
      [] mode = "send" /\ step = "create" -> "send_create"
      [] mode = "copyfile" /\ step = "get" -> "copyfile_get_contents"
      [] mode = "copyfile" /\ step = "update" -> "copyfile_update"
      [] mode = "copyfile" /\ step = "create" -> "copyfile_create"
      [] mode = "copydir" /\ step = "get" -> "copydir_get_contents"
      [] mode = "copydir" /\ step = "update" -> "copydir_update"
      [] mode = "copydir" /\ step = "create" -> "copydir_create"

\* send_file, to the first remote call
SendStart(rd) ==
    /\ pc = "send"
    /\ LET parsed == parse_repo_path(args[2])
       IN  IF args[1] = <<>> THEN
               Leave(Say(Ctx, "File not specified"), "1") /\ UNCHANGED <<repo_name, repo_path>>
           ELSE IF args[2] = <<>> THEN
               Leave(Say(Ctx, "Repository not specified"), "1") /\ UNCHANGED <<repo_name, repo_path>>
           ELSE IF GetClient(rd) # "ok" THEN
               Leave(Say(Ctx, GetClient(rd)), "1") /\ UNCHANGED <<repo_name, repo_path>>
           ELSE IF parsed[1] = None THEN
               Leave(Say(Ctx, "Invalid repository format"), "1") /\ UNCHANGED <<repo_name, repo_path>>
           ELSE IF ~IsFile(args[1]) THEN
               /\ Leave(Say(Ctx, "File not found"), "1")
               /\ repo_name' = parsed[1] /\ repo_path' = parsed[2]
           ELSE
               /\ repo_name' = parsed[1] /\ repo_path' = parsed[2]
               /\ Goto(SpinnerStart(NewSpinner(Ctx, "Connecting...")), "send_get_repo")
    /\ UNCHANGED <<frame, world, dest, content, contents, todo, token>>

\* send_file: g.get_repo(repo_name), then the target's name
SendGetRepo(o) ==
    /\ pc = "send_get_repo"
    /\ LET c1 == Called(Ctx, "get_repo", repo_name, o, <<>>)
       IN  IF o = "ok" THEN
               /\ dest' = IF repo_path # <<>> THEN repo_path ELSE Basename(args[1])
               /\ Goto(SpinnerStop(c1), "send_read")
           ELSE IF o = "err" THEN
               /\ Leave(Say(SpinnerStop(c1), "Repository not found"), "1")
               /\ UNCHANGED dest
           ELSE
               /\ Leave(Uncaught(c1), "1")
               /\ UNCHANGED dest
    /\ UNCHANGED <<frame, world, repo_name, repo_path, content, contents, todo, token>>

\* send_file: read the local file, start the upload's spinner
SendRead(o) ==
    /\ pc = "send_read"
    /\ IF o = "ok" THEN
           /\ content' = local[args[1]]
           /\ Goto(SpinnerStart(NewSpinner(Opened(Ctx, args[1], o), "Uploading...")),
                   "send_get_contents")
       ELSE
           /\ Leave(Say(SpinnerStop(Opened(Ctx, args[1], o)), "Unexpected error"), "1")
           /\ UNCHANGED content
    /\ UNCHANGED <<frame, world, repo_name, repo_path, dest, contents, todo, token>>

\* after a file of the upload is on the remote: the handler ends, or the
\* directory loop goes on
Uploaded(mode, c, what) ==
    IF mode = "copydir" THEN Goto(c, "copydir_next")
    ELSE Leave(Say(SpinnerStop(c), what), "0")

\* an upload: contents = repo.get_contents(target), then contents.sha
UploadGetContents(mode, o) ==
    /\ pc = Label(mode, "get")
    /\ LET res == GetContentsResult(remote, dest, o)
           c1 == Called(Ctx, "get_contents", dest, res,
                        IF res = "ok" THEN Entry(remote, dest).sha ELSE <<>>)
       IN  IF res = "ok" /\ Kind(remote, dest) = "file" THEN
               /\ contents' = Entry(remote, dest)
               /\ Goto(c1, Label(mode, "update"))
           ELSE IF res = "ok" THEN  \* a listing has no sha: AttributeError
               /\ contents' = Entry(remote, dest)
               /\ Leave(Say(SpinnerStop(c1), ExcMsg(mode)), "1")
           ELSE IF res = "404" THEN
               /\ Goto(c1, Label(mode, "create"))
               /\ UNCHANGED contents
           ELSE IF res = "err" THEN
               /\ Leave(Say(SpinnerStop(c1), FailMsg(mode)), "1")
               /\ UNCHANGED contents
           ELSE
               /\ Leave(Say(SpinnerStop(c1), ExcMsg(mode)), "1")
               /\ UNCHANGED contents
    /\ UNCHANGED <<frame, world, repo_name, repo_path, dest, content, todo, token>>

\* an upload: repo.update_file(target, message, content, contents.sha)
UploadUpdate(mode, o) ==
    /\ pc = Label(mode, "update")
    /\ LET res == UpdateResult(remote, dest, contents.sha, o)
           c1 == Called(Ctx, "update_file", dest, res, contents.sha)
       IN  IF res = "ok" THEN
               /\ remote' = Put(remote, dest, content)
               /\ lastUp' = (dest :> content) @@ lastUp
               /\ Uploaded(mode, c1, "Updated")
           ELSE IF res = "404" THEN  \* taken for "the target is absent"
               /\ Goto(c1, Label(mode, "create"))
               /\ UNCHANGED <<remote, lastUp>>
           ELSE IF res = "err" THEN
               /\ Leave(Say(SpinnerStop(c1), FailMsg(mode)), "1")
               /\ UNCHANGED <<remote, lastUp>>
           ELSE
               /\ Leave(Say(SpinnerStop(c1), ExcMsg(mode)), "1")
               /\ UNCHANGED <<remote, lastUp>>
    /\ UNCHANGED <<frame, locals, tokenFile, local>>

\* an upload: repo.create_file(target, message, content), in the 404 handler;
\* what it raises reaches the outer `except Exception`
UploadCreate(mode, o) ==
    /\ pc = Label(mode, "create")
    /\ LET res == CreateResult(remote, dest, o)
           c1 == Called(Ctx, "create_file", dest, res, <<>>)
       IN  IF res = "ok" THEN
               /\ remote' = Put(remote, dest, content)
               /\ lastUp' = (dest :> content) @@ lastUp
               /\ Uploaded(mode, c1, "Created")
           ELSE
               /\ Leave(Say(SpinnerStop(c1), ExcMsg(mode)), "1")
               /\ UNCHANGED <<remote, lastUp>>
    /\ UNCHANGED <<frame, locals, tokenFile, local>>

\* copy's direction: upload unless src holds a ':' and does not start with '.'
IsUpload(src) == StartsWith(src, ".") \/ ~Contains(src, ":")

\* copy, to the first remote call
CopyStart(rd) ==
    /\ pc = "copy"
    /\ LET src == args[1]
           dst == args[2]
           parsed == parse_repo_path(IF IsUpload(src) THEN dst ELSE src)
       IN  IF src = <<>> THEN
               Leave(Say(Ctx, "Source not specified"), "1") /\ UNCHANGED <<repo_name, repo_path>>
           ELSE IF dst = <<>> THEN
               Leave(Say(Ctx, "Destination not specified"), "1") /\ UNCHANGED <<repo_name, repo_path>>
           ELSE IF GetClient(rd) # "ok" THEN
               Leave(Say(Ctx, GetClient(rd)), "1") /\ UNCHANGED <<repo_name, repo_path>>
           ELSE IF parsed[1] = None THEN
               /\ Leave(Say(Ctx, IF IsUpload(src)
                                 THEN "Invalid destination repository format"
                                 ELSE "Invalid source repository format"), "1")
               /\ UNCHANGED <<repo_name, repo_path>>
           ELSE
               /\ repo_name' = parsed[1] /\ repo_path' = parsed[2]
               /\ Goto(SpinnerStart(NewSpinner(Ctx, "Connecting...")),
                       IF IsUpload(src) THEN "copy_get_repo" ELSE "dl_get_repo")
    /\ UNCHANGED <<frame, world, dest, content, contents, todo, token>>

\* the files list(src_path.rglob('*')) holds, directories left out
FilesUnder(src) == {q \in DOMAIN local : IsUnder(q, src)}

\* copy (upload): g.get_repo, then what src is
CopyGetRepo(o) ==
    /\ pc = "copy_get_repo"
    /\ LET src == args[1]
           c1 == Called(Ctx, "get_repo", repo_name, o, <<>>)
           c2 == SpinnerStop(c1)
       IN  IF o = "err" THEN
               Leave(Say(c2, "Repository not found"), "1") /\ UNCHANGED <<dest, todo>>
           ELSE IF o = "exc" THEN
               Leave(Uncaught(c1), "1") /\ UNCHANGED <<dest, todo>>
           ELSE IF IsDir(src) THEN
               /\ todo' = FilesUnder(src)
               /\ Goto(SpinnerStart(NewSpinner(c2, "Uploading files...")), "copydir_next")
               /\ UNCHANGED dest
           ELSE IF IsFile(src) THEN
               /\ dest' = IF repo_path # <<>> THEN repo_path ELSE Basename(src)
               /\ Goto(SpinnerStart(NewSpinner(c2, "Uploading...")), "copyfile_read")
               /\ UNCHANGED todo
           ELSE
               Leave(Say(c2, "Source not found"), "1") /\ UNCHANGED <<dest, todo>>
    /\ UNCHANGED <<frame, world, repo_name, repo_path, content, contents, token>>

\* dest_path = os.path.join(repo_path, str(rel_path)).replace('\\', '/')
DestPath(src, base, f) ==
    Replace(PathJoin(base, RelativeTo(f, src)), "\\", "/")

\* the directory loop that goes on after a file it could not read
CopyDirNextLenient(f, o) ==
    /\ pc = "copydir_next"
    /\ f \in todo
    /\ todo' = todo \ {f}
    /\ dest' = DestPath(args[1], repo_path, f)
    /\ IF o = "ok" THEN content' = local[f] /\ Goto(Opened(Ctx, f, o), "copydir_get_contents")
       ELSE UNCHANGED content /\ Goto(Opened(Ctx, f, o), "copydir_next")
    /\ UNCHANGED <<frame, world, repo_name, repo_path, contents, token>>

\* copy (directory): the loop takes its next file and reads it
CopyDirNext(f, o) ==
    /\ pc = "copydir_next"
    /\ f \in todo
    /\ todo' = todo \ {f}
    /\ dest' = DestPath(args[1], repo_path, f)
    /\ IF o = "ok" THEN
           /\ content' = local[f]
           /\ Goto(Opened(Ctx, f, o), "copydir_get_contents")
       ELSE
           /\ Leave(Say(SpinnerStop(Opened(Ctx, f, o)), "Failed to upload"), "1")
           /\ UNCHANGED content
    /\ UNCHANGED <<frame, world, repo_name, repo_path, contents, token>>

\* copy (directory): the loop is over
CopyDirDone ==
    /\ pc = "copydir_next"
    /\ todo = {}
    /\ Leave(Say(SpinnerStop(Ctx), "Uploaded files"), "0")
    /\ UNCHANGED <<frame, world, locals>>

\* copy (single file): read the local file
CopyFileRead(o) ==
    /\ pc = "copyfile_read"
    /\ IF o = "ok" THEN
           /\ content' = local[args[1]]
           /\ Goto(Opened(Ctx, args[1], o), "copyfile_get_contents")
       ELSE
           /\ Leave(Say(SpinnerStop(Opened(Ctx, args[1], o)), "Upload failed"), "1")
           /\ UNCHANGED content
    /\ UNCHANGED <<frame, world, repo_name, repo_path, dest, contents, todo, token>>

\* copy (download): g.get_repo, then the download's spinner
DlGetRepo(o) ==
    /\ pc = "dl_get_repo"
    /\ LET c1 == Called(Ctx, "get_repo", repo_name, o, <<>>)
       IN  IF o = "ok" THEN
               Goto(SpinnerStart(NewSpinner(SpinnerStop(c1), "Downloading...")), "dl_get_contents")
           ELSE IF o = "err" THEN
               Leave(Say(SpinnerStop(c1), "Repository not found"), "1")
           ELSE Leave(Uncaught(c1), "1")
    /\ UNCHANGED <<frame, world, locals>>

\* os.path.dirname
Dirname(p) ==
    IF ~Contains(p, "/") THEN <<>>
    ELSE SubSeq(p, 1, Len(p) - Len(Basename(p)) - 1)

\* a file lies at d or at a directory above it
RECURSIVE FileInTheWay(_)
FileInTheWay(d) ==
    IF d = <<>> THEN FALSE
    ELSE Kind(local, d) = "file" \/ FileInTheWay(Dirname(d))

\* os.makedirs(d, exist_ok=True): "ok", or the OSError it raises
MakeDirs(d, w) ==
    IF w # "ok" THEN w
    ELSE IF d = <<>> \/ FileInTheWay(d) THEN "oserr"
    ELSE "ok"

\* os.makedirs(d, exist_ok=True), then open(path, 'wb') and the write
WriteResult(d, path, w) ==
    IF MakeDirs(d, w) # "ok" THEN "oserr"
    ELSE IF Kind(local, path) = "dir" THEN "oserr"
    ELSE "ok"

\* a write that lands on the directory part of the path given
WriteLocalAtParent(l, path, bytes) ==
    [q \in DOMAIN l \cup {Dirname(path)} |-> IF q = Dirname(path) THEN bytes ELSE l[q]]

\* the local file system after open(path, 'wb').write(bytes)
WriteLocal(l, path, bytes) ==
    [q \in DOMAIN l \cup {path} |-> IF q = path THEN bytes ELSE l[q]]

\* copy (download): contents = repo.get_contents(repo_path); a file is written
\* to os.path.join(dst, contents.name), a listing starts the loop over it
DlGetContents(o, w) ==
    /\ pc = "dl_get_contents"
    /\ LET dst == args[2]
           res == GetContentsResult(remote, repo_path, o)
           c1 == Called(Ctx, "get_contents", repo_path, res,
                        IF res = "ok" THEN Entry(remote, repo_path).sha ELSE <<>>)
           entry == Entry(remote, repo_path)
           local_path == PathJoin(dst, entry.name)
       IN  IF res = "ok" /\ entry.kind = "list" THEN
               /\ contents' = entry
               /\ IF MakeDirs(dst, w) = "ok" THEN
                      /\ todo' = {e.path : e \in {e \in Listing(remote, repo_path) : e.type = "file"}}
                      /\ Goto(c1, "dl_dir_next")
                  ELSE
                      /\ Leave(Uncaught(c1), "1")
                      /\ UNCHANGED todo
               /\ UNCHANGED local
           ELSE IF res = "ok" THEN
               /\ contents' = entry
               /\ UNCHANGED todo
               /\ IF WriteResult(Dirname(local_path), local_path, w) = "ok" THEN
                      /\ local' = WriteLocal(local, local_path, B64Decode(entry.content))
                      /\ Leave(Say(SpinnerStop(c1), "Downloaded"), "0")
                  ELSE
                      /\ Leave(Uncaught(c1), "1")
                      /\ UNCHANGED local
           ELSE IF res = "exc" THEN
               Leave(Uncaught(c1), "1") /\ UNCHANGED <<contents, todo, local>>
           ELSE
               /\ Leave(Say(SpinnerStop(c1), "Download failed"), "1")
               /\ UNCHANGED <<contents, todo, local>>
    /\ UNCHANGED <<frame, tokenFile, remote, lastUp, repo_name, repo_path, dest, content, token>>

\* copy (download of a directory): the loop writes the next entry of type file
DlDirNext(e, o, w) ==
    /\ pc = "dl_dir_next"
    /\ e \in todo
    /\ todo' = todo \ {e}
    /\ LET local_path == PathJoin(args[2], Basename(e))
           c1 == Called(Ctx, "get_contents", e, o, <<>>)
       IN  IF o = "ok" /\ WriteResult(args[2], local_path, w) = "ok" THEN
               /\ local' = WriteLocal(local, local_path, B64Decode(remote[e]))
               /\ Goto(c1, "dl_dir_next")
           ELSE IF o = "err" THEN
               /\ Leave(Say(SpinnerStop(c1), "Download failed"), "1")
               /\ UNCHANGED local
           ELSE
               /\ Leave(Uncaught(c1), "1")
               /\ UNCHANGED local
    /\ UNCHANGED <<frame, tokenFile, remote, lastUp, repo_name, repo_path, dest, content,
                   contents, token>>

\* copy (download of a directory): the loop is over
DlDirDone ==
    /\ pc = "dl_dir_next"
    /\ todo = {}
    /\ Leave(Say(SpinnerStop(Ctx), "Downloaded files"), "0")
    /\ UNCHANGED <<frame, world, locals>>

\* remove_file, to the first remote call
RmStart(rd) ==
    /\ pc = "rm"
    /\ LET parsed == parse_repo_path(args[1])
       IN  IF args[1] = <<>> THEN
               Leave(Say(Ctx, "File not specified"), "1") /\ UNCHANGED <<repo_name, repo_path>>
           ELSE IF GetClient(rd) # "ok" THEN
               Leave(Say(Ctx, GetClient(rd)), "1") /\ UNCHANGED <<repo_name, repo_path>>
           ELSE IF parsed[1] = None THEN
               Leave(Say(Ctx, "Invalid repository format"), "1") /\ UNCHANGED <<repo_name, repo_path>>
           ELSE IF parsed[2] = <<>> THEN
               /\ Leave(Say(Ctx, "File path not specified"), "1")
               /\ repo_name' = parsed[1] /\ repo_path' = parsed[2]
           ELSE
               /\ repo_name' = parsed[1] /\ repo_path' = parsed[2]
               /\ Goto(SpinnerStart(NewSpinner(Ctx, "Connecting...")), "rm_get_repo")
    /\ UNCHANGED <<frame, world, dest, content, contents, todo, token>>

\* remove_file: g.get_repo(repo_name)
RmGetRepo(o) ==
    /\ pc = "rm_get_repo"
    /\ LET c1 == Called(Ctx, "get_repo", repo_name, o, <<>>)
       IN  IF o = "ok" THEN Goto(c1, "rm_get_contents")
           ELSE IF o = "err" THEN Leave(Say(SpinnerStop(c1), "Remove failed"), "1")
           ELSE Leave(Uncaught(c1), "1")
    /\ UNCHANGED <<frame, world, locals>>

\* remove_file that takes a listing for a file
RmGetContentsBlind(o) ==
    /\ pc = "rm_get_contents"
    /\ LET res == GetContentsResult(remote, repo_path, o)
           c1 == Called(Ctx, "get_contents", repo_path, res,
                        IF res = "ok" THEN Entry(remote, repo_path).sha ELSE <<>>)
       IN  IF res = "ok" THEN
               /\ contents' = Entry(remote, repo_path)
               /\ Goto(SpinnerStart(NewSpinner(SpinnerStop(c1), "Removing...")), "rm_delete")
           ELSE
               /\ Leave(Say(SpinnerStop(c1), "Remove failed"), "1")
               /\ UNCHANGED contents
    /\ UNCHANGED <<frame, world, repo_name, repo_path, dest, content, todo, token>>

\* remove_file: contents = repo.get_contents(repo_path); a listing is refused
RmGetContents(o) ==
    /\ pc = "rm_get_contents"
    /\ LET res == GetContentsResult(remote, repo_path, o)
           c1 == Called(Ctx, "get_contents", repo_path, res,
                        IF res = "ok" THEN Entry(remote, repo_path).sha ELSE <<>>)
       IN  IF res = "ok" /\ Kind(remote, repo_path) = "dir" THEN
               /\ contents' = Entry(remote, repo_path)
               /\ Leave(Say(SpinnerStop(c1), "Cannot remove directory"), "1")
           ELSE IF res = "ok" THEN
               /\ contents' = Entry(remote, repo_path)
               /\ Goto(SpinnerStart(NewSpinner(SpinnerStop(c1), "Removing...")), "rm_delete")
           ELSE IF res = "404" THEN
               /\ Leave(Say(SpinnerStop(c1), "File not found"), "1")
               /\ UNCHANGED contents
           ELSE IF res = "err" THEN
               /\ Leave(Say(SpinnerStop(c1), "Remove failed"), "1")
               /\ UNCHANGED contents
           ELSE
               /\ Leave(Uncaught(c1), "1")
               /\ UNCHANGED contents
    /\ UNCHANGED <<frame, world, repo_name, repo_path, dest, content, todo, token>>

\* remove_file: repo.delete_file(repo_path, message, contents.sha)
RmDelete(o) ==
    /\ pc = "rm_delete"
    /\ LET res == DeleteResult(remote, repo_path, contents.sha, o)
           c1 == Called(Ctx, "delete_file", repo_path, res, contents.sha)
       IN  IF res = "ok" THEN
               /\ remote' = Without(remote, repo_path)
               /\ lastUp' = Without(lastUp, repo_path)
               /\ Leave(Say(SpinnerStop(c1), "Removed"), "0")
           ELSE IF res = "exc" THEN
               /\ Leave(Uncaught(c1), "1")
               /\ UNCHANGED <<remote, lastUp>>
           ELSE
               /\ Leave(Say(SpinnerStop(c1), IF res = "404" THEN "File not found"
                                             ELSE "Remove failed"), "1")
               /\ UNCHANGED <<remote, lastUp>>
    /\ UNCHANGED <<frame, locals, tokenFile, local>>

\* list_files, to the first remote call
LsStart(rd) ==
    /\ pc = "ls"
    /\ LET repo_arg == IF args[1] # <<>> THEN args[1] ELSE <<":", ".">>
           parsed == parse_repo_path(repo_arg)
       IN  IF GetClient(rd) # "ok" THEN
               Leave(Say(Ctx, GetClient(rd)), "1") /\ UNCHANGED <<repo_name, repo_path>>
           ELSE IF repo_arg = <<":", ".">> THEN
               /\ Goto(SpinnerStart(NewSpinner(Ctx, "Fetching repositories...")), "ls_repos")
               /\ UNCHANGED <<repo_name, repo_path>>
           ELSE IF parsed[1] = None THEN
               Leave(Say(Ctx, "Invalid repository format"), "1") /\ UNCHANGED <<repo_name, repo_path>>
           ELSE
               /\ repo_name' = parsed[1] /\ repo_path' = parsed[2]
               /\ Goto(SpinnerStart(NewSpinner(Ctx, "Fetching contents...")), "ls_get_repo")
    /\ UNCHANGED <<frame, world, dest, content, contents, todo, token>>

\* list_files (":."): the user's repositories; `some` says whether there are any
LsRepos(o, some) ==
    /\ pc = "ls_repos"
    /\ LET c1 == Called(Called(Ctx, "get_user", <<>>, o, <<>>), "get_repos", <<>>, o, <<>>)
       IN  IF o = "ok" THEN
               Leave(Say(SpinnerStop(c1), IF some THEN "Repositories"
                                          ELSE "No repositories found"), "0")
           ELSE IF o = "err" THEN
               Leave(Say(SpinnerStop(c1), "Failed to fetch repositories"), "1")
           ELSE Leave(Uncaught(c1), "1")
    /\ UNCHANGED <<frame, world, locals>>

\* list_files: g.get_repo(repo_name)
LsGetRepo(o) ==
    /\ pc = "ls_get_repo"
    /\ LET c1 == Called(Ctx, "get_repo", repo_name, o, <<>>)
       IN  IF o = "ok" THEN Goto(c1, "ls_get_contents")
           ELSE IF o = "err" THEN Leave(Say(SpinnerStop(c1), "Failed to list files"), "1")
           ELSE Leave(Uncaught(c1), "1")
    /\ UNCHANGED <<frame, world, locals>>

\* list_files: contents = repo.get_contents(repo_path), printed
LsGetContents(o) ==
    /\ pc = "ls_get_contents"
    /\ LET res == GetContentsResult(remote, repo_path, o)
           c1 == Called(Ctx, "get_contents", repo_path, res,
                        IF res = "ok" THEN Entry(remote, repo_path).sha ELSE <<>>)
       IN  IF res = "ok" THEN
               /\ contents' = Entry(remote, repo_path)
               /\ Leave(Say(SpinnerStop(c1), "Contents"), "0")
           ELSE IF res = "exc" THEN
               /\ Leave(Uncaught(c1), "1")
               /\ UNCHANGED contents
           ELSE
               /\ Leave(Say(SpinnerStop(c1), IF res = "404" THEN "Repository or path not found"
                                             ELSE "Failed to list files"), "1")
               /\ UNCHANGED contents
    /\ UNCHANGED <<frame, world, repo_name, repo_path, dest, content, todo, token>>

Next ==
    \/ \E i \in Invocations : Main(i[1], i[2])
    \/ \E line \in TypedLines : LoginPrompt(line)
    \/ \E o \in ReadOutcomes, w \in LocalOutcomes : LoginVerify(o, w)
    \/ \E rd \in TokenOutcomes : SendStart(rd)
    \/ \E o \in ReadOutcomes : SendGetRepo(o)
    \/ \E o \in LocalOutcomes : SendRead(o)
    \/ \E m \in UploadModes, o \in ReadOutcomes : UploadGetContents(m, o)
    \/ \E m \in UploadModes, o \in WriteOutcomes : UploadUpdate(m, o)
    \/ \E m \in UploadModes, o \in WriteOutcomes : UploadCreate(m, o)
    \/ \E rd \in TokenOutcomes : CopyStart(rd)
    \/ \E o \in ReadOutcomes : CopyGetRepo(o)
    \/ \E f \in DOMAIN local, o \in LocalOutcomes : CopyDirNext(f, o)
    \/ CopyDirDone
    \/ \E o \in LocalOutcomes : CopyFileRead(o)
    \/ \E o \in ReadOutcomes : DlGetRepo(o)
    \/ \E o \in ReadOutcomes, w \in LocalOutcomes : DlGetContents(o, w)
    \/ \E e \in DOMAIN remote, o \in ReadOutcomes, w \in LocalOutcomes : DlDirNext(e, o, w)
    \/ DlDirDone
    \/ \E rd \in TokenOutcomes : RmStart(rd)
    \/ \E o \in ReadOutcomes : RmGetRepo(o)
    \/ \E o \in ReadOutcomes : RmGetContents(o)
    \/ \E o \in WriteOutcomes : RmDelete(o)
    \/ \E rd \in TokenOutcomes : LsStart(rd)
    \/ \E o \in ReadOutcomes, some \in BOOLEAN : LsRepos(o, some)
    \/ \E o \in ReadOutcomes : LsGetRepo(o)
    \/ \E o \in ReadOutcomes : LsGetContents(o)
    \/ ProcessEnd

Spec == Init /\ [][Next]_vars

(***************************************************************************)
(* The tool next to another client of the same repository: between the     *)
(* tool's get_contents and its update_file or create_file the other client *)
(* writes the path the tool is about to write.                             *)
(***************************************************************************)
OtherBytes == <<42, 42>>

\* the window between lines 256 and 257 (or 262) of send_file, and the same
\* window in copy: the other client commits OtherBytes to `dest`
OtherWriter ==
    /\ pc \in {Label(m, step) : m \in UploadModes, step \in {"update", "create"}}
    /\ \A i \in DOMAIN log : log[i].k # "other"
    /\ Kind(remote, dest) # "dir"
    /\ dest \in DOMAIN remote => remote[dest] # B64Encode(OtherBytes)
    /\ remote' = Put(remote, dest, OtherBytes)
    /\ lastUp' = [q \in DOMAIN lastUp \ {dest} |-> lastUp[q]]
    /\ log' = Append(log, Ev("other", "write", dest, "", Sha(B64Encode(OtherBytes))))
    /\ UNCHANGED <<frame, locals, tokenFile, local, pc, exitStatus, spinner, live>>

NextConcurrent ==
    \/ Next
    \/ OtherWriter

SpecConcurrent == Init /\ [][NextConcurrent]_vars

(***************************************************************************)
(* What the claims speak of.                                               *)
(***************************************************************************)
IsCall(e, name) == e.k = "call" /\ e.v = name
IsWrite(e) == e.k = "call" /\ e.v \in {"create_file", "update_file"}
NoCalls == \A i \in DOMAIN log : log[i].k # "call"
Printed(tag) == \E i \in DOMAIN log : log[i].k = "print" /\ log[i].v = tag
Exited == pc = "done"

\* the index of the first ':' of s, 0 when there is none
FirstColon(s) ==
    IF \E i \in 1..Len(s) : s[i] = ":"
    THEN CHOOSE i \in 1..Len(s) : s[i] = ":" /\ \A j \in 1..(i - 1) : s[j] # ":"
    ELSE 0
BeforeColon(s) == IF FirstColon(s) = 0 THEN s ELSE SubSeq(s, 1, FirstColon(s) - 1)
AfterColon(s) == IF FirstColon(s) = 0 THEN <<>> ELSE SubSeq(s, FirstColon(s) + 1, Len(s))

\* C1: parse_repo_path(s) returns (None, None) when the part of s before its
\* first ':' is empty or holds no '/', and otherwise (the part before the
\* first ':', the part after it, "" when there is no ':'); "a/b:c/d" gives
\* ("a/b", "c/d"), "a/b" gives ("a/b", "") and "" fails.
C1_ParseContract ==
    /\ pout # Unparsed =>
          pout = IF BeforeColon(pin) = <<>> \/ ~Contains(BeforeColon(pin), "/")
                 THEN <<None, None>>
                 ELSE <<BeforeColon(pin), AfterColon(pin)>>
    /\ parse_repo_path(<<"a", "/", "b", ":", "c", "/", "d">>)
          = << <<"a", "/", "b">>, <<"c", "/", "d">> >>
    /\ parse_repo_path(<<"a", "/", "b">>) = << <<"a", "/", "b">>, <<>> >>
    /\ parse_repo_path(<<>>) = <<None, None>>

\* C1's case: a string with two ':' was split at the first one only
C1_Witness ==
    /\ pin = <<"/", ":", "a", ":">>
    /\ pout = << <<"/">>, <<"a", ":">> >>

\* C2 (as claimed): in an upload, after get_contents found no file at the
\* target the tool calls create_file and never update_file on it, and after
\* get_contents returned the file there it calls update_file with the sha just
\* read and never create_file on it.
C2_CreateOrUpdateNeverBoth ==
    cmd \in {"send", "copy"} =>
        \A i \in DOMAIN log :
            IsCall(log[i], "get_contents") =>
                /\ log[i].r = "404" =>
                      /\ \A j \in DOMAIN log :
                            j > i /\ log[j].p = log[i].p => ~IsCall(log[j], "update_file")
                      /\ i < Len(log) /\ log[i + 1].k = "call" =>
                            IsCall(log[i + 1], "create_file") /\ log[i + 1].p = log[i].p
                /\ log[i].r = "ok" /\ log[i].s # <<>> =>
                      /\ \A j \in DOMAIN log :
                            j > i /\ log[j].p = log[i].p => ~IsCall(log[j], "create_file")
                      /\ i < Len(log) /\ log[i + 1].k = "call" /\ IsUpload(args[1]) =>
                            /\ IsCall(log[i + 1], "update_file")
                            /\ log[i + 1].p = log[i].p
                            /\ log[i + 1].s = log[i].s

NeedsToken == cmd \in {"send", "copy", "rm", "ls"}
AuthRequired == Exited /\ exitStatus = "1" /\ Printed("Authentication required")

\* C3 (as claimed), on the command lines the argument parser accepts: with no
\* token file, send, copy, rm and ls end with exit status 1 reporting that
\* authentication is required, whatever their arguments, and issue no remote
\* call.
C3_AuthRequiredForAnyArguments ==
    NeedsToken /\ tokenFile = Absent /\ ArgsAccepted(cmd, args) =>
        /\ NoCalls
        /\ Exited => AuthRequired

\* every required argument is there and is not the empty string
ArgsGiven ==
    /\ ArgsAccepted(cmd, args)
    /\ cmd # "ls" => \A i \in DOMAIN args : args[i] # <<>>

\* C3 (amended): with no token file, send, copy, rm and ls issue no remote
\* call and never end with status 0; when the argument parser accepts the
\* command line and no required argument is empty (ls: whatever its argument)
\* they end with exit status 1 reporting that authentication is required.
C3_AuthRequiredAfterValidation ==
    NeedsToken /\ tokenFile = Absent =>
        /\ NoCalls
        /\ pc \in {cmd, "done"}
        /\ Exited => exitStatus # "0"
        /\ Exited /\ ArgsGiven => AuthRequired

\* C3's case: a copy with both arguments ended on the missing token
C3_Witness ==
    /\ cmd = "copy" /\ tokenFile = Absent /\ ArgsGiven
    /\ AuthRequired /\ NoCalls

\* C4: rm on a path that get_contents answers with a listing ends with the
\* invalid-target error and exit status 1, calls delete_file never, and leaves
\* the repository as it was.
C4_RmDirectoryRefused ==
    cmd = "rm" /\ contents.kind = "list" =>
        /\ Exited /\ exitStatus = "1"
        /\ Printed("Cannot remove directory")
        /\ \A i \in DOMAIN log : ~IsCall(log[i], "delete_file")
        /\ remote = start.remote

\* C4's case: rm o/r:d where d is a directory of the repository
C4_Witness ==
    /\ cmd = "rm" /\ contents.kind = "list" /\ Exited
    /\ Kind(remote, repo_path) = "dir"

DirUpload == cmd = "copy" /\ IsUpload(args[1]) /\ IsDir(args[1])
Download == cmd = "copy" /\ ~IsUpload(args[1])
WrittenAt(q) == {i \in DOMAIN log : IsWrite(log[i]) /\ log[i].r = "ok" /\ log[i].p = q}
WrittenPaths == {log[i].p : i \in {i \in DOMAIN log : IsWrite(log[i]) /\ log[i].r = "ok"}}

\* the destination path joined with the file's path relative to the source
RelativePathKept(src, base, f) == PathJoin(base, RelativeTo(f, src))

\* C5 (as claimed): a directory upload that succeeds has written every file
\* under the source directory exactly once, to the destination path joined
\* with the file's path relative to the source, and no other remote path.
C5_RelativePathsPreserved ==
    DirUpload /\ Exited /\ exitStatus = "0" =>
        /\ WrittenPaths = {RelativePathKept(args[1], repo_path, f) : f \in FilesUnder(args[1])}
        /\ \A f \in FilesUnder(args[1]) :
              Cardinality(WrittenAt(RelativePathKept(args[1], repo_path, f))) = 1

\* the files a download of repo_path writes: the file itself, or the
\* immediate entries of type file of the directory
Downloaded ==
    IF contents.kind = "list"
    THEN {e.path : e \in {e \in Listing(remote, repo_path) : e.type = "file"}}
    ELSE {repo_path}

\* C6: when a download succeeds, every remote path it fetched that the tool
\* uploaded before (and that was not changed since) is now a local file with
\* the very bytes uploaded.
C6_RoundTrip ==
    Download /\ Exited /\ exitStatus = "0" =>
        \A q \in Downloaded \cap DOMAIN lastUp :
            /\ PathJoin(args[2], Basename(q)) \in DOMAIN local
            /\ local[PathJoin(args[2], Basename(q))] = lastUp[q]

\* C6's case: the four bytes of f, uploaded by an earlier invocation, were
\* downloaded from the same remote path
C6_Witness ==
    /\ Download /\ Exited /\ exitStatus = "0" /\ runs = 2
    /\ repo_path \in DOMAIN lastUp
    /\ Len(lastUp[repo_path]) = 4
    /\ local[PathJoin(args[2], Basename(repo_path))] = lastUp[repo_path]

\* the upload of a file of the directory failed at event i
UploadFailedAt(i) ==
    \/ log[i].k = "open" /\ log[i].r # "ok"
    \/ IsCall(log[i], "get_contents") /\ log[i].r \in {"err", "exc"}
    \/ IsWrite(log[i]) /\ log[i].r # "ok"

\* C7: in a directory upload, once the upload of a file has failed no later
\* file is read or uploaded (the only call that may follow is the create_file
\* for the same path after an update_file that failed with 404), no
\* delete_file is issued, the process ends with status 1, and the files
\* uploaded before the failure are still on the remote.
C7_AbortAtFirstFailure ==
    DirUpload =>
        \A i \in DOMAIN log :
            UploadFailedAt(i) =>
                /\ \A j \in DOMAIN log :
                      j > i => /\ log[j].k # "open"
                               /\ log[j].k = "call" =>
                                     /\ IsCall(log[j], "create_file")
                                     /\ IsCall(log[i], "update_file")
                                     /\ log[i].r = "404"
                                     /\ log[j].p = log[i].p
                                     /\ log[j].r # "ok"
                /\ pc \in {"copydir_create", "done"}
                /\ pc = "copydir_create" => i = Len(log) /\ log[i].r = "404"
                /\ Exited => exitStatus = "1"
                /\ \A j \in 1..(i - 1) :
                      IsWrite(log[j]) /\ log[j].r = "ok" =>
                          \E f \in FilesUnder(args[1]) :
                              /\ DestPath(args[1], repo_path, f) = log[j].p
                              /\ log[j].p \in DOMAIN remote
                              /\ remote[log[j].p] = B64Encode(local[f])

\* C7's case: a file was uploaded, the next one failed, a third was never
\* visited
C7_Witness ==
    /\ DirUpload /\ Exited /\ exitStatus = "1"
    /\ todo # {}
    /\ \E i \in DOMAIN log :
          /\ UploadFailedAt(i)
          /\ \E j \in 1..(i - 1) : IsWrite(log[j]) /\ log[j].r = "ok"

Verified == \E i \in DOMAIN log : IsCall(log[i], "get_user") /\ log[i].r = "ok"
VerifyFailed == \E i \in DOMAIN log : IsCall(log[i], "get_user") /\ log[i].r # "ok"

\* C8: login changes the token file only after its verification call has
\* succeeded: interrupted at the prompt it exits 0, on an empty token or a
\* failed verification it exits 1, and in these cases the token file is as it
\* was; when login succeeds the file holds the token typed (the line, stripped).
C8_LoginWritesAfterVerification ==
    cmd = "login" /\ ArgsAccepted(cmd, args) =>
        /\ tokenFile # start.tokenFile => Verified
        /\ Exited =>
              LET typed == log[1].p
              IN  /\ log[1].k = "input"
                  /\ typed = Interrupt => exitStatus = "0" /\ tokenFile = start.tokenFile
                  /\ typed # Interrupt /\ Strip(typed) = <<>> =>
                        exitStatus = "1" /\ tokenFile = start.tokenFile
                  /\ VerifyFailed => exitStatus = "1" /\ tokenFile = start.tokenFile
                  /\ exitStatus = "0" /\ typed # Interrupt =>
                        Verified /\ tokenFile = Strip(typed)

\* C8's case: a successful login replaced the token k by the token m
C8_Witness ==
    /\ cmd = "login" /\ Exited /\ exitStatus = "0"
    /\ Printed("Authenticated")
    /\ start.tokenFile = <<"k">>
    /\ tokenFile = <<"m">>

\* what a handler prints when all went well
SuccessTags ==
    {"Cancelled", "Authenticated", "Updated", "Created", "Uploaded files", "Downloaded",
     "Downloaded files", "Removed", "Repositories", "No repositories found", "Contents"}
Failed == \E i \in DOMAIN log : log[i].k = "print" /\ log[i].v \notin SuccessTags

\* C9 (as claimed), on the command lines the argument parser accepts: an
\* invocation ends with exit status 1 when it ended in an error (no
\* subcommand given among them) and with exit status 0 otherwise.
C9_ExitStatusTellsFailure ==
    Exited /\ ArgsAccepted(cmd, args) => exitStatus = IF Failed THEN "1" ELSE "0"

\* C10 (as claimed): whenever a spinner is started, a result or an error is
\* printed, or the process exits, every spinner started before has been
\* stopped (its flag cleared, its thread joined).
C10_SpinnerStoppedBeforeProceeding ==
    \A i \in DOMAIN log :
        log[i].k \in {"start", "print", "exit"} =>
            \A j \in 1..(i - 1) :
                log[j].k = "start" =>
                    \E m \in (j + 1)..(i - 1) : log[m].k = "stop" /\ log[m].v = log[j].v

FileDownloaded == Download /\ Exited /\ exitStatus = "0" /\ contents.kind = "file"
DirDownloaded == Download /\ Exited /\ exitStatus = "0" /\ contents.kind = "list"

\* the local paths whose content differs from the start of the invocation
LocalChanged ==
    {q \in DOMAIN local : q \notin DOMAIN start.local \/ local[q] # start.local[q]}

\* C11 (as claimed), the file case: a download of a remote file has written
\* the decoded bytes to the local path dst itself.
C11_FileWrittenToDst ==
    FileDownloaded =>
        /\ args[2] \in DOMAIN local
        /\ local[args[2]] = B64Decode(remote[repo_path])

\* C11 (amended): a download of a remote file writes the decoded bytes to
\* dst/<name of the remote file>, dst being created as a directory, and
\* nothing at dst itself; a download of a remote directory writes exactly its
\* immediate entries of type file to dst/<name> and nothing below a
\* subdirectory. No other local file is written or removed.
C11_DownloadWritesIntoDst ==
    /\ Download => DOMAIN start.local \subseteq DOMAIN local
    /\ FileDownloaded =>
          LET path == PathJoin(args[2], Basename(repo_path))
          IN  /\ path \in DOMAIN local
              /\ local[path] = B64Decode(remote[repo_path])
              /\ args[2] \notin DOMAIN local
              /\ LocalChanged \subseteq {path}
    /\ DirDownloaded =>
          LET files == {e \in Listing(remote, repo_path) : e.type = "file"}
          IN  /\ \A e \in files :
                    /\ PathJoin(args[2], e.name) \in DOMAIN local
                    /\ local[PathJoin(args[2], e.name)] = B64Decode(remote[e.path])
              /\ LocalChanged \subseteq {PathJoin(args[2], e.name) : e \in files}
              /\ \A q \in DOMAIN local \ DOMAIN start.local :
                    Dirname(q) = args[2]

\* C11's case: the remote file f was downloaded to the new local path x and
\* lies at x/f
C11_Witness ==
    /\ FileDownloaded
    /\ args[2] = LocalNew
    /\ LocalNew \o <<"/">> \o Basename(repo_path) \in DOMAIN local
    /\ LocalNew \notin DOMAIN start.local

\* the in-repo path of send's repository reference names a folder
NamesFolder(path) ==
    path # <<>> /\ (path[Len(path)] = "/" \/ Kind(start.remote, path) = "dir")

\* the remote path the help text promises for send
PromisedTarget ==
    IF repo_path = <<>> THEN Basename(args[1])
    ELSE IF NamesFolder(repo_path) THEN PathJoin(repo_path, Basename(args[1]))
    ELSE repo_path

\* C12 (as claimed): every content call of send (get_contents, update_file,
\* create_file) is for the local file's base name when the reference has no
\* in-repo path, for folder/<base name> when the in-repo path names a folder,
\* and for the in-repo path as given when it names a file; a send that
\* succeeds has stored the file's bytes there.
C12_SendTargetPath ==
    cmd = "send" /\ repo_name # None =>
        /\ \A i \in DOMAIN log :
              IsCall(log[i], "get_contents") \/ IsWrite(log[i]) => log[i].p = PromisedTarget
        /\ Exited /\ exitStatus = "0" =>
              /\ PromisedTarget \in DOMAIN remote
              /\ remote[PromisedTarget] = B64Encode(content)

\* the tool's write calls for the other client's path after event i
WritesAfter(i) ==
    {j \in DOMAIN log : j > i /\ IsWrite(log[j]) /\ log[j].p = log[i].p}

\* C13 (as claimed): once another client has written the path between the
\* tool's get_contents and its write, the tool's write is rejected, the tool
\* issues no second write call for the path (no retry, no fall back from
\* update_file to create_file), it exits with status 1, and the path holds
\* the other client's content.
C13_NoLostUpdate ==
    \A i \in DOMAIN log :
        log[i].k = "other" =>
            /\ \A j \in WritesAfter(i) : log[j].r # "ok"
            /\ Cardinality(WritesAfter(i)) <= 1
            /\ Exited => exitStatus = "1"
            /\ log[i].p \in DOMAIN remote
            /\ remote[log[i].p] = B64Encode(OtherBytes)

====
